---------------------------- MODULE Spec2Model ----------------------------
(***************************************************************************)
(* A model of SceneManager (7-1_FinalProjectMilestones/Source/             *)
(* SceneManager.cpp): the texture registry (m_textureIDs,                  *)
(* m_loadedTextures), the material registry (m_objectMaterials), the       *)
(* transform composer (SetTransformations) and the scene script            *)
(* (PrepareScene, RenderScene), together with the parts of the OpenGL      *)
(* context, the stb_image heap and the shader program that the methods     *)
(* read and write.                                                         *)
(*                                                                         *)
(* Numbers.  TLA+ has integers only.  Colour components and strengths are  *)
(* written in hundredths (0.25f is 25); angles are in whole degrees and    *)
(* the rotation operators are defined for multiples of 90 degrees, where   *)
(* the sine and cosine are 0, 1 or -1; glm's float rounding of those       *)
(* values is not modelled.                                                 *)
(***************************************************************************)
EXTENDS Integers, Sequences, FiniteSets, TLC

VARIABLES
    m_pShaderManager,   \* the ShaderManager* the constructor was given
    m_textureIDs,       \* TEXTURE_INFO m_textureIDs[NumTextureSlots]: slot -> [ID, tag]
    m_loadedTextures,   \* int: the number of registered textures, the next free slot
    m_objectMaterials,  \* std::vector<OBJECT_MATERIAL>, as a sequence
    glTextures,         \* GL context: generated texture name -> internal format of its image
    glUnits,            \* GL context: texture unit -> name bound to GL_TEXTURE_2D (0: none)
    glActive,           \* GL context: the active texture unit (glActiveTexture)
    stbImages,          \* number of decoded image buffers not yet stbi_image_free'd
    uniforms,           \* shader program: uniform name -> the value last written
    call,               \* the last call made on the scene manager: arguments and results
    m_basicMeshes,      \* ShapeMeshes: the meshes loaded so far
    pc,                 \* the number of calls PrepareScene has made so far
    trace,              \* the calls PrepareScene has made so far, in order
    frames,             \* the number of RenderScene calls that have returned
    draws,              \* the mesh draw calls of the last RenderScene call, in order
    writer              \* uniform name -> the call of the frame loop that wrote it last

texVars == <<m_textureIDs, m_loadedTextures>>
glVars == <<glTextures, glUnits, glActive, stbImages>>
sceneVars == <<m_basicMeshes, pc, trace, frames, draws, writer>>
vars == <<m_pShaderManager, m_textureIDs, m_loadedTextures, m_objectMaterials,
          glTextures, glUnits, glActive, stbImages, uniforms, call,
          m_basicMeshes, pc, trace, frames, draws, writer>>

(***************************************************************************)
(* Program constants and the bounds of the model.                          *)
(***************************************************************************)
\* the size of the m_textureIDs array ("There are up to 16 slots")
NumTextureSlots == 16

\* the texture names one behaviour may generate (glGenTextures calls)
MaxNames == 3

\* tags a texture is registered under, and tags that are looked up
Tags == {"wall", "floor"}

LookupTags == Tags \cup {"stone"}

\* what stbi_load can hand back: no image, or an image of 1 to 4 channels
DecodeResults ==
    {[image |-> FALSE, colorChannels |-> 0]}
        \cup {[image |-> TRUE, colorChannels |-> c] : c \in 1..4}

NULL == "NULL"

(***************************************************************************)
(* The OpenGL context and the shader program, as far as the methods use    *)
(* them.                                                                   *)
(***************************************************************************)
\* glGenTextures(1, &id): a name that is not in use; names are handed out
\* in increasing order and 0 is never a texture name
glGenTextures(textures) ==
    CHOOSE n \in 1..(Cardinality(DOMAIN textures) + 1) :
        /\ n \notin DOMAIN textures
        /\ \A k \in 1..(n - 1) : k \in DOMAIN textures

\* the texture objects after name `id` got an image of format `format`
\* ("none": generated, no image uploaded)
glTexImage2D(textures, id, format) ==
    [n \in DOMAIN textures \cup {id} |-> IF n = id THEN format ELSE textures[n]]

\* glBindTexture(GL_TEXTURE_2D, id) on the active unit
glBindTexture(units, active, id) == [units EXCEPT ![active] = id]

\* m_pShaderManager->set...Value(name, value)
SetUniform(u, name, value) == (name :> value) @@ u

(***************************************************************************)
(* SceneManager::SceneManager                                              *)
(***************************************************************************)
\* an unfilled slot of m_textureIDs: an empty std::string tag; its ID is
\* never read while the slot is at or above m_loadedTextures
EmptyTextureInfo == [ID |-> 0, tag |-> ""]

\* m_loadedTextures when the scene manager is constructed.  The constructor
\* body does not assign it; the member is declared in SceneManager.h, which
\* is not among the sources.  The registry starts empty.
InitialLoadedTextures == 0

\* the state after SceneManager(pShaderManager), pShaderManager being the
\* application's shader manager
Init ==
    /\ m_pShaderManager = "ShaderManager"
    /\ m_textureIDs = [i \in 0..(NumTextureSlots - 1) |-> EmptyTextureInfo]
    /\ m_loadedTextures = InitialLoadedTextures
    /\ m_objectMaterials = <<>>
    /\ glTextures = [n \in {} |-> "none"]
    /\ glUnits = [u \in 0..(NumTextureSlots - 1) |-> 0]
    /\ glActive = 0
    /\ stbImages = 0
    /\ uniforms = [n \in {} |-> 0]
    /\ call = [op |-> "none"]
    /\ m_basicMeshes = {}
    /\ pc = 0
    /\ trace = <<>>
    /\ frames = 0
    /\ draws = <<>>
    /\ writer = [n \in {} |-> ""]

(***************************************************************************)
(* SceneManager::CreateGLTexture                                           *)
(***************************************************************************)
\* mutant: a 2-channel (grey + alpha) image is taken for an RGBA one
InternalFormatAccepting2(colorChannels) ==
    IF colorChannels = 3 THEN "GL_RGB8"
    ELSE IF colorChannels \in {2, 4} THEN "GL_RGBA8"
    ELSE "none"

\* the if / else-if chain on colorChannels: the internal format the image
\* is uploaded with, "none" for the branch that returns false
InternalFormat(colorChannels) ==
    IF colorChannels = 3 THEN "GL_RGB8"
    ELSE IF colorChannels = 4 THEN "GL_RGBA8"
    ELSE "none"

\* mutant: the entry is written over the last registered slot
RegisterTextureOverLast(ids, loaded, textureID, tag) ==
    LET slot == IF loaded > 0 THEN loaded - 1 ELSE 0
    IN  [ids EXCEPT ![slot] = [ID |-> textureID, tag |-> tag]]

\* m_textureIDs[m_loadedTextures].ID = textureID; ....tag = tag
RegisterTexture(ids, loaded, textureID, tag) ==
    [ids EXCEPT ![loaded] = [ID |-> textureID, tag |-> tag]]

CreateGLTexture(tag, decoded) ==
    /\ UNCHANGED <<m_pShaderManager, m_objectMaterials, uniforms, glActive>>
    /\ IF decoded.image
       THEN LET textureID == glGenTextures(glTextures)
                format == InternalFormat(decoded.colorChannels)
                bound == glBindTexture(glUnits, glActive, textureID)
            IN  IF format # "none"
                THEN \* upload, mipmaps, free the image, unbind, register
                     /\ glTextures' = glTexImage2D(glTextures, textureID, format)
                     /\ glUnits' = glBindTexture(bound, glActive, 0)
                     /\ m_textureIDs' = RegisterTexture(m_textureIDs, m_loadedTextures,
                                                        textureID, tag)
                     /\ m_loadedTextures' = m_loadedTextures + 1
                     /\ call' = [op |-> "CreateGLTexture", tag |-> tag,
                                 decoded |-> decoded, textureID |-> textureID,
                                 slot |-> m_loadedTextures, ret |-> TRUE]
                     /\ UNCHANGED stbImages
                ELSE \* "Not implemented to handle image with n channels":
                     \* returns with the name generated and bound, the image not freed
                     /\ glTextures' = glTexImage2D(glTextures, textureID, "none")
                     /\ glUnits' = bound
                     /\ stbImages' = stbImages + 1
                     /\ call' = [op |-> "CreateGLTexture", tag |-> tag,
                                 decoded |-> decoded, textureID |-> textureID,
                                 ret |-> FALSE]
                     /\ UNCHANGED texVars
       ELSE \* "Could not load image"
            /\ call' = [op |-> "CreateGLTexture", tag |-> tag, decoded |-> decoded,
                        textureID |-> 0, ret |-> FALSE]
            /\ UNCHANGED <<texVars, glTextures, glUnits, stbImages>>

(***************************************************************************)
(* SceneManager::BindGLTextures                                            *)
(***************************************************************************)
RECURSIVE BindLoop(_, _, _, _, _, _)
RECURSIVE BindLoopOnActiveUnit(_, _, _, _, _, _)
\* mutant: glActiveTexture is left out, every texture is bound on the
\* unit that happens to be active
BindLoopOnActiveUnit(ids, loaded, i, units, active, binds) ==
    IF i < loaded
    THEN BindLoopOnActiveUnit(ids, loaded, i + 1,
                              glBindTexture(units, active, ids[i].ID), active,
                              Append(binds, <<active, ids[i].ID>>))
    ELSE [units |-> units, active |-> active, binds |-> binds]

\* for (int i = 0; i < m_loadedTextures; i++)
\*     { glActiveTexture(GL_TEXTURE0 + i); glBindTexture(GL_TEXTURE_2D, m_textureIDs[i].ID); }
\* binds: the glBindTexture calls made so far, as <<unit, name>>, in order
BindLoop(ids, loaded, i, units, active, binds) ==
    IF i < loaded
    THEN BindLoop(ids, loaded, i + 1,
                  glBindTexture(units, i, ids[i].ID), i,
                  Append(binds, <<i, ids[i].ID>>))
    ELSE [units |-> units, active |-> active, binds |-> binds]

BindGLTextures ==
    LET r == BindLoop(m_textureIDs, m_loadedTextures, 0, glUnits, glActive, <<>>)
    IN  /\ glUnits' = r.units
        /\ glActive' = r.active
        /\ call' = [op |-> "BindGLTextures", binds |-> r.binds]
        /\ UNCHANGED <<m_pShaderManager, texVars, m_objectMaterials,
                       glTextures, stbImages, uniforms>>

(***************************************************************************)
(* SceneManager::DestroyGLTextures                                         *)
(***************************************************************************)
RECURSIVE DestroyLoop(_, _, _, _)
\* for (int i = 0; i < m_loadedTextures; i++) glGenTextures(1, &m_textureIDs[i].ID);
DestroyLoop(ids, loaded, i, textures) ==
    IF i < loaded
    THEN LET id == glGenTextures(textures)
         IN  DestroyLoop([ids EXCEPT ![i].ID = id], loaded, i + 1,
                         glTexImage2D(textures, id, "none"))
    ELSE [ids |-> ids, textures |-> textures]

DestroyGLTextures ==
    LET r == DestroyLoop(m_textureIDs, m_loadedTextures, 0, glTextures)
    IN  /\ m_textureIDs' = r.ids
        /\ glTextures' = r.textures
        /\ call' = [op |-> "DestroyGLTextures"]
        /\ UNCHANGED <<m_pShaderManager, m_loadedTextures, m_objectMaterials,
                       glUnits, glActive, stbImages, uniforms>>

(***************************************************************************)
(* SceneManager::FindTextureID and SceneManager::FindTextureSlot           *)
(***************************************************************************)
RECURSIVE FindTextureIDLoop(_, _, _, _, _)
RECURSIVE FindTextureSlotLoop(_, _, _, _, _)
RECURSIVE FindTextureSlotLoopLastMatch(_, _, _, _, _)
RECURSIVE FindTextureIDLoopFromSlotOne(_, _, _, _, _)
\* mutant: the scan for the ID starts at slot 1 when the registry holds
\* more than one texture
FindTextureIDLoopFromSlotOne(ids, loaded, tag, index, reads) ==
    IF index = 0 /\ loaded > 1
    THEN FindTextureIDLoopFromSlotOne(ids, loaded, tag, 1, reads)
    ELSE IF index < loaded
    THEN IF ids[index].tag = tag
         THEN [ret |-> ids[index].ID, reads |-> reads \cup {index}]
         ELSE FindTextureIDLoopFromSlotOne(ids, loaded, tag, index + 1,
                                           reads \cup {index})
    ELSE [ret |-> -1, reads |-> reads]

\* while ((index < m_loadedTextures) && (bFound == false)) ...
\* reads: the slots of m_textureIDs the scan has read
FindTextureIDLoop(ids, loaded, tag, index, reads) ==
    IF index < loaded
    THEN IF ids[index].tag = tag
         THEN [ret |-> ids[index].ID, reads |-> reads \cup {index}]
         ELSE FindTextureIDLoop(ids, loaded, tag, index + 1, reads \cup {index})
    ELSE [ret |-> -1, reads |-> reads]

\* mutant: the loop does not stop at the first match (bFound is not
\* tested), so the last matching slot wins
FindTextureSlotLoopLastMatch(ids, loaded, tag, index, reads) ==
    IF index < loaded
    THEN LET rest == FindTextureSlotLoopLastMatch(ids, loaded, tag, index + 1,
                                                  reads \cup {index})
         IN  IF ids[index].tag = tag /\ rest.ret = -1
             THEN [ret |-> index, reads |-> rest.reads]
             ELSE rest
    ELSE [ret |-> -1, reads |-> reads]

FindTextureSlotLoop(ids, loaded, tag, index, reads) ==
    IF index < loaded
    THEN IF ids[index].tag = tag
         THEN [ret |-> index, reads |-> reads \cup {index}]
         ELSE FindTextureSlotLoop(ids, loaded, tag, index + 1, reads \cup {index})
    ELSE [ret |-> -1, reads |-> reads]

FindTextureID(tag) ==
    LET r == FindTextureIDLoop(m_textureIDs, m_loadedTextures, tag, 0, {})
    IN  /\ call' = [op |-> "FindTextureID", tag |-> tag, ret |-> r.ret,
                    reads |-> r.reads]
        /\ UNCHANGED <<m_pShaderManager, texVars, m_objectMaterials, glVars, uniforms>>

FindTextureSlot(tag) ==
    LET r == FindTextureSlotLoop(m_textureIDs, m_loadedTextures, tag, 0, {})
    IN  /\ call' = [op |-> "FindTextureSlot", tag |-> tag, ret |-> r.ret,
                    reads |-> r.reads]
        /\ UNCHANGED <<m_pShaderManager, texVars, m_objectMaterials, glVars, uniforms>>

(***************************************************************************)
(* The texture registry under any order of calls.                          *)
(***************************************************************************)
NamesLeft(n) == Cardinality(DOMAIN glTextures) + n <= MaxNames

NextTextures ==
  /\ UNCHANGED sceneVars
  /\
    \/ \E tag \in Tags, decoded \in DecodeResults :
           NamesLeft(1) /\ CreateGLTexture(tag, decoded)
    \/ BindGLTextures
    \/ NamesLeft(m_loadedTextures) /\ DestroyGLTextures
    \/ \E tag \in LookupTags : FindTextureID(tag)
    \/ \E tag \in LookupTags : FindTextureSlot(tag)

SpecTextures == Init /\ [][NextTextures]_vars

(***************************************************************************)
(* Properties of the texture registry (checked under SpecTextures).        *)
(***************************************************************************)
\* the step just taken was a call of CreateGLTexture
CreatedStep == call'.op = "CreateGLTexture"

\* C1: a call of CreateGLTexture whose image decodes with 3 or 4 channels
\* returns true, stores {tag, the name it generated} in the slot numbered by
\* the old m_loadedTextures, adds exactly one to m_loadedTextures and leaves
\* every other slot as it was.
C1_CreateAppendsOneEntry ==
    [][(CreatedStep /\ call'.decoded.image /\ call'.decoded.colorChannels \in {3, 4})
         => /\ call'.ret = TRUE
            /\ call'.textureID \notin DOMAIN glTextures
            /\ call'.textureID \in DOMAIN glTextures'
            /\ m_textureIDs'[m_loadedTextures]
                   = [ID |-> call'.textureID, tag |-> call'.tag]
            /\ m_loadedTextures' = m_loadedTextures + 1
            /\ \A i \in DOMAIN m_textureIDs :
                   i # m_loadedTextures => m_textureIDs'[i] = m_textureIDs[i]]_vars

\* a 4-channel load has just been registered behind two earlier entries
C1_Witness ==
    /\ call.op = "CreateGLTexture"
    /\ call.ret = TRUE
    /\ call.decoded.colorChannels = 4
    /\ m_loadedTextures = 3
    /\ m_textureIDs[2] = [ID |-> call.textureID, tag |-> call.tag]

\* C2: CreateGLTexture returns true exactly when the image decodes with 3
\* channels (then uploaded as GL_RGB8) or 4 channels (GL_RGBA8); whenever it
\* returns false, m_loadedTextures and every slot of m_textureIDs are as before.
C2_CreateFailsWithoutRegistering ==
    [][CreatedStep
         => /\ call'.ret = (call'.decoded.image /\ call'.decoded.colorChannels \in {3, 4})
            /\ (~call'.ret => UNCHANGED <<m_textureIDs, m_loadedTextures>>)
            /\ (call'.ret /\ call'.decoded.colorChannels = 3
                    => glTextures'[call'.textureID] = "GL_RGB8")
            /\ (call'.ret /\ call'.decoded.colorChannels = 4
                    => glTextures'[call'.textureID] = "GL_RGBA8")]_vars

\* a 2-channel image was refused while the registry already held an entry
C2_Witness ==
    /\ call.op = "CreateGLTexture"
    /\ call.decoded = [image |-> TRUE, colorChannels |-> 2]
    /\ call.ret = FALSE
    /\ m_loadedTextures >= 1

\* the registered slots holding `tag`
SlotsOf(tag) == {i \in 0..(m_loadedTextures - 1) : m_textureIDs[i].tag = tag}

\* the lowest registered slot holding `tag`, -1 when there is none
FirstSlotOf(tag) ==
    IF SlotsOf(tag) = {} THEN -1
    ELSE CHOOSE i \in SlotsOf(tag) : \A j \in SlotsOf(tag) : i <= j

\* C3: FindTextureSlot(tag) returns the lowest registered slot whose tag is
\* tag and FindTextureID(tag) the ID stored in that slot; both return -1
\* when no registered slot has the tag (an empty registry included), and
\* neither scan reads a slot at or above m_loadedTextures.
C3_FindReturnsFirstMatch ==
    /\ call.op = "FindTextureSlot"
           => /\ call.ret = FirstSlotOf(call.tag)
              /\ call.reads \subseteq 0..(m_loadedTextures - 1)
    /\ call.op = "FindTextureID"
           => /\ call.ret = IF FirstSlotOf(call.tag) = -1 THEN -1
                            ELSE m_textureIDs[FirstSlotOf(call.tag)].ID
              /\ call.reads \subseteq 0..(m_loadedTextures - 1)

\* a tag registered twice was looked up and resolved to its first slot
C3_Witness ==
    /\ call.op = "FindTextureSlot"
    /\ call.ret = 0
    /\ Cardinality(SlotsOf(call.tag)) >= 2

\* C4: BindGLTextures makes one glBindTexture call per registered texture,
\* for slots 0, 1, ... in increasing order, binding texture unit i to the ID
\* in slot i; a unit at or above m_loadedTextures keeps its binding, and the
\* registry is not modified.
C4_BindAllInRegistrationOrder ==
    [][call'.op = "BindGLTextures"
         => /\ Len(call'.binds) = m_loadedTextures
            /\ \A k \in 1..m_loadedTextures :
                   call'.binds[k] = <<k - 1, m_textureIDs[k - 1].ID>>
            /\ \A u \in DOMAIN glUnits :
                   glUnits'[u] = IF u < m_loadedTextures THEN m_textureIDs[u].ID
                                 ELSE glUnits[u]
            /\ UNCHANGED <<m_textureIDs, m_loadedTextures>>]_vars

\* two registered textures sit on units 0 and 1 after BindGLTextures
C4_Witness ==
    /\ call.op = "BindGLTextures"
    /\ m_loadedTextures = 2
    /\ glUnits[0] = m_textureIDs[0].ID
    /\ glUnits[1] = m_textureIDs[1].ID
    /\ glUnits[0] # glUnits[1]

(***************************************************************************)
(* The material registry: OBJECT_MATERIAL, DefineObjectMaterials,          *)
(* FindMaterial, SetShaderMaterial.                                        *)
(***************************************************************************)
\* the materials one behaviour may append one at a time
MaxPushed == 2

\* an OBJECT_MATERIAL with the given tag whose six value fields are told
\* apart by v
Material(tag, v) ==
    [ambientColor |-> <<v, v, v>>, ambientStrength |-> v,
     diffuseColor |-> <<v + 1, v, v>>, specularColor |-> <<v, v + 2, v>>,
     shininess |-> 16 * v, tag |-> tag]

\* materials appended one at a time: two tags, each with two sets of values
PushedMaterials == {Material(t, v) : t \in {"metal", "glass"}, v \in {1, 2}}

\* tags looked up: two that DefineObjectMaterials and PushedMaterials use,
\* one that nothing registers
MaterialLookupTags == {"metal", "glass", "chrome"}

\* what an OBJECT_MATERIAL holds before FindMaterial is called on it: the
\* local of SetShaderMaterial is not initialised, so its value fields are
\* whatever the stack held (its std::string tag is empty)
CallerMaterials == {Material("", v) : v \in {7, 9}}

\* the eight materials of DefineObjectMaterials, in push_back order
SceneMaterials ==
    << [ambientColor |-> <<25, 25, 25>>, ambientStrength |-> 50,
        diffuseColor |-> <<40, 40, 40>>, specularColor |-> <<100, 100, 100>>,
        shininess |-> 12800, tag |-> "metal"],
       [ambientColor |-> <<30, 20, 10>>, ambientStrength |-> 50,
        diffuseColor |-> <<60, 40, 20>>, specularColor |-> <<50, 50, 50>>,
        shininess |-> 3200, tag |-> "floor"],
       [ambientColor |-> <<30, 30, 50>>, ambientStrength |-> 30,
        diffuseColor |-> <<50, 50, 70>>, specularColor |-> <<90, 90, 100>>,
        shininess |-> 6400, tag |-> "glass"],
       [ambientColor |-> <<20, 20, 20>>, ambientStrength |-> 50,
        diffuseColor |-> <<60, 60, 60>>, specularColor |-> <<70, 70, 70>>,
        shininess |-> 3200, tag |-> "table"],
       [ambientColor |-> <<50, 79, 61>>, ambientStrength |-> 30,
        diffuseColor |-> <<50, 79, 61>>, specularColor |-> <<30, 30, 30>>,
        shininess |-> 1600, tag |-> "wall"],
       [ambientColor |-> <<30, 20, 10>>, ambientStrength |-> 50,
        diffuseColor |-> <<50, 40, 30>>, specularColor |-> <<60, 50, 40>>,
        shininess |-> 3200, tag |-> "bookCover"],
       [ambientColor |-> <<10, 10, 10>>, ambientStrength |-> 60,
        diffuseColor |-> <<20, 20, 20>>, specularColor |-> <<30, 30, 30>>,
        shininess |-> 1600, tag |-> "grayBlackLeather"],
       [ambientColor |-> <<40, 50, 40>>, ambientStrength |-> 60,
        diffuseColor |-> <<50, 70, 50>>, specularColor |-> <<80, 80, 80>>,
        shininess |-> 3200, tag |-> "airFreshener"] >>

\* m_objectMaterials.push_back(material)
PushMaterial(material) ==
    /\ m_objectMaterials' = Append(m_objectMaterials, material)
    /\ call' = [op |-> "push_back", material |-> material]
    /\ UNCHANGED <<m_pShaderManager, texVars, glVars, uniforms>>

DefineObjectMaterials ==
    /\ m_objectMaterials' = m_objectMaterials \o SceneMaterials
    /\ call' = [op |-> "DefineObjectMaterials"]
    /\ UNCHANGED <<m_pShaderManager, texVars, glVars, uniforms>>

RECURSIVE FindMaterialLoop(_, _, _, _)
RECURSIVE FindMaterialLoopLastMatch(_, _, _, _)
\* mutant: the scan goes on after a match, so the last matching entry's
\* values end up in the output
FindMaterialLoopLastMatch(mats, tag, index, material) ==
    IF index < Len(mats)
    THEN IF mats[index + 1].tag = tag
         THEN LET rest == FindMaterialLoopLastMatch(mats, tag, index + 1,
                              [material EXCEPT
                                  !.diffuseColor = mats[index + 1].diffuseColor,
                                  !.specularColor = mats[index + 1].specularColor,
                                  !.shininess = mats[index + 1].shininess])
              IN  [bFound |-> TRUE, material |-> rest.material]
         ELSE FindMaterialLoopLastMatch(mats, tag, index + 1, material)
    ELSE [bFound |-> FALSE, material |-> material]

\* while ((index < m_objectMaterials.size()) && (bFound == false)) ...
\* index counts from 0 as in the source; a sequence is indexed from 1
FindMaterialLoop(mats, tag, index, material) ==
    IF index < Len(mats)
    THEN IF mats[index + 1].tag = tag
         THEN [bFound |-> TRUE,
               material |-> [material EXCEPT
                                !.diffuseColor = mats[index + 1].diffuseColor,
                                !.specularColor = mats[index + 1].specularColor,
                                !.shininess = mats[index + 1].shininess]]
         ELSE FindMaterialLoop(mats, tag, index + 1, material)
    ELSE [bFound |-> FALSE, material |-> material]

\* mutant: the early return on an empty list is missing
NeverEmpty(mats) == FALSE

\* if (m_objectMaterials.size() == 0)
IsEmpty(mats) == Len(mats) = 0

\* mutant: the result of the scan is returned
ReturnFound(bFound) == bFound

\* return(true) after the scan, whatever bFound is
ReturnAfterScan(bFound) == TRUE

\* FindMaterial(tag, material): the value returned and the material the
\* reference parameter holds afterwards
FindMaterial(mats, tag, material) ==
    IF IsEmpty(mats)
    THEN [ret |-> FALSE, material |-> material]
    ELSE LET r == FindMaterialLoop(mats, tag, 0, material)
         IN  [ret |-> ReturnAfterScan(r.bFound), material |-> r.material]

\* a call of FindMaterial with the caller's material holding `material`
CallFindMaterial(tag, material) ==
    LET r == FindMaterial(m_objectMaterials, tag, material)
    IN  /\ call' = [op |-> "FindMaterial", tag |-> tag, material |-> material,
                    out |-> r.material, ret |-> r.ret]
        /\ UNCHANGED <<m_pShaderManager, texVars, m_objectMaterials, glVars, uniforms>>

\* the three set...Value calls of SetShaderMaterial, as <<name, value>>
MaterialWrites(material) ==
    << <<"material.diffuseColor", material.diffuseColor>>,
       <<"material.specularColor", material.specularColor>>,
       <<"material.shininess", material.shininess>> >>

RECURSIVE WriteUniforms(_, _)
\* the uniforms after the writes of `writes`, made in order
WriteUniforms(u, writes) ==
    IF writes = <<>> THEN u
    ELSE WriteUniforms(SetUniform(u, Head(writes)[1], Head(writes)[2]), Tail(writes))

\* SetShaderMaterial(materialTag); `local` is what the uninitialised local
\* OBJECT_MATERIAL material holds when FindMaterial is called on it
\* the set...Value calls it makes, as <<name, value>>, on the registry `mats`
ShaderMaterialWrites(mats, materialTag, local) ==
    LET r == FindMaterial(mats, materialTag, local)
    IN  IF Len(mats) > 0 /\ r.ret THEN MaterialWrites(r.material) ELSE <<>>

SetShaderMaterial(materialTag, local) ==
    LET writes == ShaderMaterialWrites(m_objectMaterials, materialTag, local)
    IN  /\ uniforms' = WriteUniforms(uniforms, writes)
        /\ call' = [op |-> "SetShaderMaterial", tag |-> materialTag,
                    material |-> local, writes |-> writes]
        /\ UNCHANGED <<m_pShaderManager, texVars, m_objectMaterials, glVars>>

NextMaterials ==
  /\ UNCHANGED sceneVars
  /\
    \/ \E material \in PushedMaterials :
           Len(m_objectMaterials) < MaxPushed /\ PushMaterial(material)
    \/ Len(m_objectMaterials) <= MaxPushed /\ DefineObjectMaterials
    \/ \E tag \in MaterialLookupTags, material \in CallerMaterials :
           CallFindMaterial(tag, material)
    \/ \E tag \in MaterialLookupTags, local \in CallerMaterials :
           SetShaderMaterial(tag, local)

SpecMaterials == Init /\ [][NextMaterials]_vars

(***************************************************************************)
(* Properties of the material registry (checked under SpecMaterials).      *)
(***************************************************************************)
\* the positions (from 1) of the entries of m_objectMaterials tagged `tag`
EntriesOf(tag) ==
    {i \in 1..Len(m_objectMaterials) : m_objectMaterials[i].tag = tag}

\* the first entry of m_objectMaterials tagged `tag` (there is one)
FirstEntryOf(tag) ==
    m_objectMaterials[CHOOSE i \in EntriesOf(tag) : \A j \in EntriesOf(tag) : i <= j]

\* C5: whatever was appended to m_objectMaterials, FindMaterial(tag, out)
\* with a tag the list holds sets out's diffuseColor, specularColor and
\* shininess to those of the first entry with that tag, and leaves the list
\* as it was.
C5_FindMaterialFirstOccurrence ==
    [][(call'.op = "FindMaterial" /\ EntriesOf(call'.tag) # {})
         => /\ call'.out.diffuseColor = FirstEntryOf(call'.tag).diffuseColor
            /\ call'.out.specularColor = FirstEntryOf(call'.tag).specularColor
            /\ call'.out.shininess = FirstEntryOf(call'.tag).shininess
            /\ UNCHANGED m_objectMaterials]_vars

\* a tag held by two entries with different values was looked up
C5_Witness ==
    /\ call.op = "FindMaterial"
    /\ \E i, j \in EntriesOf(call.tag) :
           /\ i < j
           /\ m_objectMaterials[i].diffuseColor # m_objectMaterials[j].diffuseColor
           /\ call.out.diffuseColor = m_objectMaterials[i].diffuseColor

\* C6: while m_objectMaterials is empty, FindMaterial returns false for any
\* tag with the output material as the caller passed it, and
\* SetShaderMaterial makes no write to the shader.
C6_EmptyRegistryNotFound ==
    [][Len(m_objectMaterials) = 0
         => /\ call'.op = "FindMaterial"
                   => call'.ret = FALSE /\ call'.out = call'.material
            /\ call'.op = "SetShaderMaterial"
                   => call'.writes = <<>> /\ UNCHANGED uniforms]_vars

\* FindMaterial was called on the empty registry
C6_Witness ==
    /\ call.op = "FindMaterial"
    /\ Len(m_objectMaterials) = 0
    /\ call.ret = FALSE

\* C7: while m_objectMaterials is not empty, FindMaterial returns true for
\* any tag; for a tag no entry has, the output material is as the caller
\* passed it, and SetShaderMaterial writes material.diffuseColor,
\* material.specularColor and material.shininess from that material.
C7_NonEmptyRegistryAlwaysFound ==
    [][Len(m_objectMaterials) > 0
         => /\ call'.op = "FindMaterial"
                   => /\ call'.ret = TRUE
                      /\ EntriesOf(call'.tag) = {} => call'.out = call'.material
            /\ (call'.op = "SetShaderMaterial" /\ EntriesOf(call'.tag) = {})
                   => /\ call'.writes = MaterialWrites(call'.material)
                      /\ uniforms'["material.diffuseColor"] = call'.material.diffuseColor
                      /\ uniforms'["material.specularColor"] = call'.material.specularColor
                      /\ uniforms'["material.shininess"] = call'.material.shininess]_vars

\* SetShaderMaterial was called with a tag no entry has, and the shader
\* holds what the local material held
C7_Witness ==
    /\ call.op = "SetShaderMaterial"
    /\ Len(m_objectMaterials) > 0
    /\ EntriesOf(call.tag) = {}
    /\ "material.shininess" \in DOMAIN uniforms
    /\ uniforms["material.shininess"] = call.material.shininess

(***************************************************************************)
(* The transform composer: SetTransformations.  A glm::vec3 is a triple,   *)
(* a glm::mat4 a tuple of four rows of four entries, M[row][column], so    *)
(* that M applied to the point p is the product of M with the column       *)
(* (p.x, p.y, p.z, 1).                                                     *)
(***************************************************************************)
\* scale, rotation and position arguments the calls are made with
Scales == {<<1, 1, 1>>, <<2, 3, 4>>}

Angles == {0, 90, 180, -90}

Positions == {<<0, 0, 0>>, <<5, 0, 0>>, <<0, -2, 7>>}

\* glm::radians, in quarter turns (pi/2): exact for a multiple of 90 degrees
radians(degrees) == degrees \div 90

\* cosine and sine of an angle given in quarter turns
cos(quarterTurns) == <<1, 0, -1, 0>>[(quarterTurns % 4) + 1]

sin(quarterTurns) == <<0, 1, 0, -1>>[(quarterTurns % 4) + 1]

\* entry (i, j) of the product of two 4x4 matrices
MatEntry(A, B, i, j) ==
    A[i][1] * B[1][j] + A[i][2] * B[2][j] + A[i][3] * B[3][j] + A[i][4] * B[4][j]

\* row i of the product
MatRow(A, B, i) ==
    <<MatEntry(A, B, i, 1), MatEntry(A, B, i, 2), MatEntry(A, B, i, 3), MatEntry(A, B, i, 4)>>

\* the product of two 4x4 matrices (glm's operator*)
MatMul(A, B) == <<MatRow(A, B, 1), MatRow(A, B, 2), MatRow(A, B, 3), MatRow(A, B, 4)>>

\* glm::scale(v)
glmScale(v) ==
    << <<v[1], 0, 0, 0>>,
       <<0, v[2], 0, 0>>,
       <<0, 0, v[3], 0>>,
       <<0, 0, 0, 1>> >>

\* glm::translate(v)
glmTranslate(v) ==
    << <<1, 0, 0, v[1]>>,
       <<0, 1, 0, v[2]>>,
       <<0, 0, 1, v[3]>>,
       <<0, 0, 0, 1>> >>

\* glm::rotate(angle, axis) for a unit axis: the axis-angle matrix
glmRotate(angle, axis) ==
    LET c == cos(angle)
        s == sin(angle)
        x == axis[1]
        y == axis[2]
        z == axis[3]
    IN  << <<c + (1 - c) * x * x, (1 - c) * x * y - s * z, (1 - c) * x * z + s * y, 0>>,
           <<(1 - c) * x * y + s * z, c + (1 - c) * y * y, (1 - c) * y * z - s * x, 0>>,
           <<(1 - c) * x * z - s * y, (1 - c) * y * z + s * x, c + (1 - c) * z * z, 0>>,
           <<0, 0, 0, 1>> >>

\* mutant: the factors are multiplied in the order they were built
ModelViewScaleOutermost(scaleXYZ, XrotationDegrees, YrotationDegrees, ZrotationDegrees, positionXYZ) ==
    MatMul(glmScale(scaleXYZ),
      MatMul(glmRotate(radians(XrotationDegrees), <<1, 0, 0>>),
        MatMul(glmRotate(radians(YrotationDegrees), <<0, 1, 0>>),
          MatMul(glmRotate(radians(ZrotationDegrees), <<0, 0, 1>>),
                 glmTranslate(positionXYZ)))))

\* mutant: the translation is built from scaleXYZ
ModelViewTranslateByScale(scaleXYZ, XrotationDegrees, YrotationDegrees, ZrotationDegrees, positionXYZ) ==
    MatMul(glmTranslate(scaleXYZ),
      MatMul(glmRotate(radians(ZrotationDegrees), <<0, 0, 1>>),
        MatMul(glmRotate(radians(YrotationDegrees), <<0, 1, 0>>),
          MatMul(glmRotate(radians(XrotationDegrees), <<1, 0, 0>>),
                 glmScale(scaleXYZ)))))

\* mutant: the translation is the innermost factor
ModelViewTranslateInnermost(scaleXYZ, XrotationDegrees, YrotationDegrees, ZrotationDegrees, positionXYZ) ==
    MatMul(glmRotate(radians(ZrotationDegrees), <<0, 0, 1>>),
      MatMul(glmRotate(radians(YrotationDegrees), <<0, 1, 0>>),
        MatMul(glmRotate(radians(XrotationDegrees), <<1, 0, 0>>),
          MatMul(glmScale(scaleXYZ),
                 glmTranslate(positionXYZ)))))

\* modelView = translation * rotationZ * rotationY * rotationX * scale
ModelView(scaleXYZ, XrotationDegrees, YrotationDegrees, ZrotationDegrees, positionXYZ) ==
    MatMul(glmTranslate(positionXYZ),
      MatMul(glmRotate(radians(ZrotationDegrees), <<0, 0, 1>>),
        MatMul(glmRotate(radians(YrotationDegrees), <<0, 1, 0>>),
          MatMul(glmRotate(radians(XrotationDegrees), <<1, 0, 0>>),
                 glmScale(scaleXYZ)))))

SetTransformations(scaleXYZ, XrotationDegrees, YrotationDegrees, ZrotationDegrees, positionXYZ) ==
    LET modelView == ModelView(scaleXYZ, XrotationDegrees, YrotationDegrees,
                               ZrotationDegrees, positionXYZ)
    IN  /\ uniforms' = IF NULL # m_pShaderManager
                       THEN SetUniform(uniforms, "model", modelView)
                       ELSE uniforms
        /\ call' = [op |-> "SetTransformations", scaleXYZ |-> scaleXYZ,
                    XrotationDegrees |-> XrotationDegrees,
                    YrotationDegrees |-> YrotationDegrees,
                    ZrotationDegrees |-> ZrotationDegrees,
                    positionXYZ |-> positionXYZ]
        /\ UNCHANGED <<m_pShaderManager, texVars, m_objectMaterials, glVars>>

NextTransform ==
    /\ UNCHANGED sceneVars
    /\ \E scaleXYZ \in Scales, rx \in Angles, ry \in Angles, rz \in Angles,
           positionXYZ \in Positions :
            SetTransformations(scaleXYZ, rx, ry, rz, positionXYZ)

SpecTransform == Init /\ [][NextTransform]_vars

(***************************************************************************)
(* Properties of the transform composer (checked under SpecTransform).     *)
(***************************************************************************)
\* the points a model matrix is applied to: the origin, the three unit
\* points (an affine map is fixed by these four) and one more
Points == {<<0, 0, 0>>, <<1, 0, 0>>, <<0, 1, 0>>, <<0, 0, 1>>, <<1, 2, 3>>}

\* the matrix M applied to the point p: M times the column (p, 1), as the
\* four coordinates of the result
ApplyRow(M, p, i) == M[i][1] * p[1] + M[i][2] * p[2] + M[i][3] * p[3] + M[i][4]

ApplyMatrix(M, p) ==
    <<ApplyRow(M, p, 1), ApplyRow(M, p, 2), ApplyRow(M, p, 3), ApplyRow(M, p, 4)>>

\* the point p as homogeneous coordinates
Homogeneous(p) == <<p[1], p[2], p[3], 1>>

\* the elementary motions of a point, coordinate by coordinate
ScalePoint(p, s) == <<p[1] * s[1], p[2] * s[2], p[3] * s[3]>>

QuarterTurnCos(degrees) ==
    IF degrees % 360 = 0 THEN 1 ELSE IF degrees % 360 = 180 THEN -1 ELSE 0

QuarterTurnSin(degrees) ==
    IF degrees % 360 = 90 THEN 1 ELSE IF degrees % 360 = 270 THEN -1 ELSE 0

RotatePointX(p, d) ==
    <<p[1],
      p[2] * QuarterTurnCos(d) - p[3] * QuarterTurnSin(d),
      p[2] * QuarterTurnSin(d) + p[3] * QuarterTurnCos(d)>>

RotatePointY(p, d) ==
    <<p[1] * QuarterTurnCos(d) + p[3] * QuarterTurnSin(d),
      p[2],
      p[3] * QuarterTurnCos(d) - p[1] * QuarterTurnSin(d)>>

RotatePointZ(p, d) ==
    <<p[1] * QuarterTurnCos(d) - p[2] * QuarterTurnSin(d),
      p[1] * QuarterTurnSin(d) + p[2] * QuarterTurnCos(d),
      p[3]>>

TranslatePoint(p, t) == <<p[1] + t[1], p[2] + t[2], p[3] + t[3]>>

\* C8: the matrix SetTransformations writes to the "model" uniform moves a
\* point as: scale first, then the rotation about X, then about Y, then
\* about Z, the translation last (rotations in multiples of 90 degrees).
C8_ModelIsTranslateRotZRotYRotXScale ==
    call.op = "SetTransformations"
        => \A p \in Points :
               ApplyMatrix(uniforms["model"], p)
                   = Homogeneous(
                         TranslatePoint(
                             RotatePointZ(
                                 RotatePointY(
                                     RotatePointX(ScalePoint(p, call.scaleXYZ),
                                                  call.XrotationDegrees),
                                     call.YrotationDegrees),
                                 call.ZrotationDegrees),
                             call.positionXYZ))

\* a call with a non-uniform scale, three different non-zero rotations and
\* a non-zero position
C8_Witness ==
    /\ call.op = "SetTransformations"
    /\ call.scaleXYZ = <<2, 3, 4>>
    /\ call.XrotationDegrees = 90
    /\ call.YrotationDegrees = 180
    /\ call.ZrotationDegrees = -90
    /\ call.positionXYZ = <<0, -2, 7>>
    /\ "model" \in DOMAIN uniforms

\* the arguments of the last call leave every point where it is
IdentityArguments ==
    /\ call.op = "SetTransformations"
    /\ call.scaleXYZ = <<1, 1, 1>>
    /\ call.XrotationDegrees = 0
    /\ call.YrotationDegrees = 0
    /\ call.ZrotationDegrees = 0
    /\ call.positionXYZ = <<0, 0, 0>>

\* C9: SetTransformations with scale (1,1,1), rotations 0, 0, 0 and position
\* (0,0,0) writes the 4x4 identity matrix to the "model" uniform.
C9_IdentityArgumentsGiveIdentity ==
    IdentityArguments
        => uniforms["model"] = << <<1, 0, 0, 0>>,
                                  <<0, 1, 0, 0>>,
                                  <<0, 0, 1, 0>>,
                                  <<0, 0, 0, 1>> >>

\* the identity call was made, and the matrix in the shader leaves the
\* point (1, 2, 3) where it is
C9_Witness ==
    /\ IdentityArguments
    /\ "model" \in DOMAIN uniforms
    /\ ApplyMatrix(uniforms["model"], <<1, 2, 3>>) = <<1, 2, 3, 1>>

\* the last call turns by 90 degrees about Z only, with unit scale, and
\* translates by a vector with a non-zero x or y
QuarterTurnZThenTranslate ==
    /\ call.op = "SetTransformations"
    /\ call.scaleXYZ = <<1, 1, 1>>
    /\ call.XrotationDegrees = 0
    /\ call.YrotationDegrees = 0
    /\ call.ZrotationDegrees = 90
    /\ (call.positionXYZ[1] # 0 \/ call.positionXYZ[2] # 0)

\* C10: for a Z rotation of 90 degrees, unit scale and a translation t with
\* a non-zero x or y, the model matrix takes every point p = (x, y, z) to
\* (-y, x, z) + t, the rotated point translated, and not to the rotation of
\* p + t, (-(y + t.y), x + t.x, z + t.z).
C10_RotatesBeforeTranslating ==
    QuarterTurnZThenTranslate
        => \A p \in Points :
               LET t == call.positionXYZ
                   image == ApplyMatrix(uniforms["model"], p)
               IN  /\ image = <<t[1] - p[2], p[1] + t[2], p[3] + t[3], 1>>
                   /\ image # <<0 - (p[2] + t[2]), p[1] + t[1], p[3] + t[3], 1>>

\* such a call was made with t = (5, 0, 0): the origin lands on t
C10_Witness ==
    /\ QuarterTurnZThenTranslate
    /\ call.positionXYZ = <<5, 0, 0>>
    /\ ApplyMatrix(uniforms["model"], <<0, 0, 0>>) = <<5, 0, 0, 1>>

(***************************************************************************)
(* The capacity of the texture registry.  CreateGLTexture does not         *)
(* compare m_loadedTextures with the size of m_textureIDs.  A registration *)
(* at slot NumTextureSlots writes past the end of the array, which is      *)
(* undefined behaviour: the behaviours of SpecCapacity end with that call. *)
(***************************************************************************)
\* an image stbi_load decodes and CreateGLTexture accepts
LoadableImages == {[image |-> TRUE, colorChannels |-> 3]}

NextCapacity ==
    /\ UNCHANGED sceneVars
    /\ m_loadedTextures <= NumTextureSlots
    /\ \E tag \in Tags, decoded \in LoadableImages : CreateGLTexture(tag, decoded)

SpecCapacity == Init /\ [][NextCapacity]_vars

\* C11: the texture registry never grows beyond its slot count: after any
\* sequence of CreateGLTexture calls m_loadedTextures is at most
\* NumTextureSlots, and no registration writes to a slot outside
\* m_textureIDs.
C11_RegistryStaysWithinCapacity ==
    /\ m_loadedTextures <= NumTextureSlots
    /\ (call.op = "CreateGLTexture" /\ call.ret) => call.slot \in DOMAIN m_textureIDs

(***************************************************************************)
(* Teardown of the texture registry (checked under SpecTextures).          *)
(***************************************************************************)
\* the texture names CreateGLTexture generated, gave an image and
\* registered, that the registry holds
RegisteredTextureNames ==
    {m_textureIDs[i].ID : i \in {j \in 0..(m_loadedTextures - 1) :
        /\ m_textureIDs[j].ID \in DOMAIN glTextures
        /\ glTextures[m_textureIDs[j].ID] # "none"}}

\* C12: teardown releases texture memory: when DestroyGLTextures has run,
\* every texture name that CreateGLTexture generated and registered is
\* freed (no longer allocated in the GL context), and the teardown itself
\* has allocated no new texture name.
C12_DestroyReleasesTextures ==
    [][call'.op = "DestroyGLTextures" =>
          /\ \A id \in RegisteredTextureNames : id \notin DOMAIN glTextures'
          /\ DOMAIN glTextures' \subseteq DOMAIN glTextures]_vars

(***************************************************************************)
(* What a CreateGLTexture call leaves behind (checked under SpecTextures). *)
(***************************************************************************)
\* C20: CreateGLTexture leaves no resource dangling on any return path:
\* whenever it returns, true or false, the image buffer it decoded has been
\* freed (the number of unfreed buffers is what it was before the call) and
\* every texture name it generated is recorded in a registered slot of
\* m_textureIDs.
C20_CreateLeavesNothingDangling ==
    [][CreatedStep =>
          /\ stbImages' = stbImages
          /\ \A id \in DOMAIN glTextures' \ DOMAIN glTextures :
                 \E i \in 0..(m_loadedTextures' - 1) : m_textureIDs'[i].ID = id]_vars

(***************************************************************************)
(* FindTextureID against FindTextureSlot (checked under SpecTextures).     *)
(***************************************************************************)
\* what FindTextureID(tag) and FindTextureSlot(tag) return in this state
FoundTextureID(tag) == FindTextureIDLoop(m_textureIDs, m_loadedTextures, tag, 0, {}).ret

FoundTextureSlot(tag) == FindTextureSlotLoop(m_textureIDs, m_loadedTextures, tag, 0, {}).ret

\* C17: in every state of the registry and for every tag, FindTextureID and
\* FindTextureSlot agree: either both return -1, or FindTextureSlot returns
\* a slot s with 0 <= s < m_loadedTextures and FindTextureID returns
\* m_textureIDs[s].ID.
C17_FindIDAndFindSlotAgree ==
    \A tag \in LookupTags :
        \/ FoundTextureSlot(tag) = -1 /\ FoundTextureID(tag) = -1
        \/ /\ FoundTextureSlot(tag) \in 0..(m_loadedTextures - 1)
           /\ FoundTextureID(tag) = m_textureIDs[FoundTextureSlot(tag)].ID

\* a registry of three textures in which one tag is found at slot 1 behind
\* a different tag, is registered twice, and another tag is not found
C17_Witness ==
    /\ m_loadedTextures = 3
    /\ \E tag \in LookupTags :
           /\ FoundTextureSlot(tag) = 1
           /\ Cardinality(SlotsOf(tag)) = 2
           /\ FoundTextureID(tag) = m_textureIDs[1].ID
    /\ \E tag \in LookupTags : FoundTextureSlot(tag) = -1 /\ FoundTextureID(tag) = -1

(***************************************************************************)
(* SceneManager::SetShaderColor, SetShaderTexture, SetTextureUVScale       *)
(*                                                                         *)
(* bUseTexture is written through setIntValue with a bool argument; the    *)
(* model keeps the bool.  Colour components and UV scales are in           *)
(* hundredths.                                                             *)
(***************************************************************************)
\* colours and UV scales a caller passes
Colours == {<<50, 70, 50, 100>>, <<15, 15, 15, 100>>}

UVScales == {<<100, 100>>, <<400, 400>>}

\* the two set...Value calls of SetShaderColor, as <<name, value>>
ShaderColorWrites(redColorValue, greenColorValue, blueColorValue, alphaValue) ==
    << <<"bUseTexture", FALSE>>,
       <<"objectColor", <<redColorValue, greenColorValue, blueColorValue, alphaValue>>>> >>

\* mutant: a lookup miss is validated, the object falls back to its colour
\* and the sampler is not written
ShaderTextureWritesValidated(textureID) ==
    IF textureID = -1
    THEN << <<"bUseTexture", FALSE>> >>
    ELSE << <<"bUseTexture", TRUE>>, <<"objectTexture", textureID>> >>

\* the two set...Value calls of SetShaderTexture; textureID is what
\* FindTextureSlot(textureTag) returned
ShaderTextureWrites(textureID) ==
    << <<"bUseTexture", TRUE>>, <<"objectTexture", textureID>> >>

\* the setVec2Value call of SetTextureUVScale
UVScaleWrites(u, v) == << <<"UVscale", <<u, v>>>> >>

SetShaderColor(redColorValue, greenColorValue, blueColorValue, alphaValue) ==
    LET writes == IF NULL # m_pShaderManager
                  THEN ShaderColorWrites(redColorValue, greenColorValue,
                                         blueColorValue, alphaValue)
                  ELSE <<>>
    IN  /\ uniforms' = WriteUniforms(uniforms, writes)
        /\ call' = [op |-> "SetShaderColor", writes |-> writes]
        /\ UNCHANGED <<m_pShaderManager, texVars, m_objectMaterials, glVars>>

SetShaderTexture(textureTag) ==
    LET textureID == FoundTextureSlot(textureTag)
        writes == IF NULL # m_pShaderManager
                  THEN ShaderTextureWrites(textureID)
                  ELSE <<>>
    IN  /\ uniforms' = WriteUniforms(uniforms, writes)
        /\ call' = [op |-> "SetShaderTexture", tag |-> textureTag,
                    textureID |-> textureID, writes |-> writes]
        /\ UNCHANGED <<m_pShaderManager, texVars, m_objectMaterials, glVars>>

SetTextureUVScale(u, v) ==
    LET writes == IF NULL # m_pShaderManager THEN UVScaleWrites(u, v) ELSE <<>>
    IN  /\ uniforms' = WriteUniforms(uniforms, writes)
        /\ call' = [op |-> "SetTextureUVScale", writes |-> writes]
        /\ UNCHANGED <<m_pShaderManager, texVars, m_objectMaterials, glVars>>

\* textures are loaded, and colours, textures and UV scales are selected,
\* in any order
NextShader ==
    /\ UNCHANGED sceneVars
    /\ \/ \E tag \in Tags, decoded \in DecodeResults :
              NamesLeft(1) /\ CreateGLTexture(tag, decoded)
       \/ \E c \in Colours : SetShaderColor(c[1], c[2], c[3], c[4])
       \/ \E tag \in LookupTags : SetShaderTexture(tag)
       \/ \E uv \in UVScales : SetTextureUVScale(uv[1], uv[2])

SpecShader == Init /\ [][NextShader]_vars

\* C15: a texture lookup miss is passed to the shader unvalidated: a call
\* SetShaderTexture(tag) with a tag that no registered slot holds still sets
\* bUseTexture to true and sets the objectTexture sampler to the sentinel
\* -1; it raises and records no error: the call writes those two uniforms
\* and leaves every other uniform, both registries and the GL context as
\* they were.
C15_MissIsPassedToShader ==
    [][(call'.op = "SetShaderTexture" /\ SlotsOf(call'.tag) = {})
         => /\ call'.textureID = -1
            /\ call'.writes = << <<"bUseTexture", TRUE>>, <<"objectTexture", -1>> >>
            /\ DOMAIN uniforms' = DOMAIN uniforms \cup {"bUseTexture", "objectTexture"}
            /\ uniforms'["bUseTexture"] = TRUE
            /\ uniforms'["objectTexture"] = -1
            /\ \A n \in DOMAIN uniforms \ {"bUseTexture", "objectTexture"} :
                   uniforms'[n] = uniforms[n]
            /\ UNCHANGED <<m_pShaderManager, texVars, m_objectMaterials, glVars>>]_vars

\* the tag "floor" was selected after its load had failed on the channel
\* count, while "wall" is registered and a colour had been selected before
C15_Witness ==
    /\ call.op = "SetShaderTexture"
    /\ call.tag = "floor"
    /\ SlotsOf("floor") = {}
    /\ SlotsOf("wall") # {}
    /\ stbImages >= 1
    /\ "objectColor" \in DOMAIN uniforms
    /\ uniforms["bUseTexture"] = TRUE
    /\ uniforms["objectTexture"] = -1

(***************************************************************************)
(* SceneManager::PrepareScene, LoadSceneTextures, SetupSceneLights         *)
(*                                                                         *)
(* PrepareScene is followed call by call: pc is the number of calls of     *)
(* PrepareSceneCalls made so far, trace the calls themselves.  The image   *)
(* each CreateGLTexture call decodes is an input of that call.             *)
(***************************************************************************)
\* the number of RenderScene calls one behaviour makes
MaxFrames == 3

\* mutant: LoadSceneTextures binds the textures before it has loaded them
PrepareSceneCallsBindingFirst ==
    << [op |-> "BindGLTextures", tag |-> ""],
       [op |-> "CreateGLTexture", tag |-> "wall"],
       [op |-> "CreateGLTexture", tag |-> "lampshade"],
       [op |-> "CreateGLTexture", tag |-> "stone"],
       [op |-> "CreateGLTexture", tag |-> "floor"],
       [op |-> "DefineObjectMaterials", tag |-> ""],
       [op |-> "SetupSceneLights", tag |-> ""],
       [op |-> "LoadMeshes", tag |-> ""] >>

\* the calls of PrepareScene, LoadSceneTextures inlined, in program order
PrepareSceneCalls ==
    << [op |-> "CreateGLTexture", tag |-> "wall"],
       [op |-> "CreateGLTexture", tag |-> "lampshade"],
       [op |-> "CreateGLTexture", tag |-> "stone"],
       [op |-> "CreateGLTexture", tag |-> "floor"],
       [op |-> "BindGLTextures", tag |-> ""],
       [op |-> "DefineObjectMaterials", tag |-> ""],
       [op |-> "SetupSceneLights", tag |-> ""],
       [op |-> "LoadMeshes", tag |-> ""] >>

\* PrepareScene has returned
Prepared == pc = Len(PrepareSceneCalls)

\* the call PrepareScene makes next is `op`
AtCall(op) == pc < Len(PrepareSceneCalls) /\ PrepareSceneCalls[pc + 1].op = op

\* mutant: LoadSceneTextures gives up at the first load that fails, and
\* PrepareScene with it
AfterCreateGLTextureOrAbort(at, bReturn) ==
    IF bReturn THEN at + 1 ELSE Len(PrepareSceneCalls)

\* bReturn = CreateGLTexture(...): the result is stored and never tested,
\* the next call follows
AfterCreateGLTexture(at, bReturn) == at + 1

\* an entry of trace
Traced(op, tag, ret, textureID) ==
    [op |-> op, tag |-> tag, ret |-> ret, textureID |-> textureID]

\* who wrote a uniform: a routine, and the RenderScene call it ran in (0:
\* PrepareScene)
Writer(routine, frame) == [routine |-> routine, frame |-> frame]

RECURSIVE RecordWriters(_, _, _)
\* `w` after `who` made the writes of `writes`
RecordWriters(w, writes, who) ==
    IF writes = <<>> THEN w
    ELSE RecordWriters(SetUniform(w, Head(writes)[1], who), Tail(writes), who)

\* one of the four CreateGLTexture calls of LoadSceneTextures
LoadSceneTextures_CreateGLTexture ==
    /\ AtCall("CreateGLTexture")
    /\ \E decoded \in DecodeResults :
           CreateGLTexture(PrepareSceneCalls[pc + 1].tag, decoded)
    /\ pc' = AfterCreateGLTexture(pc, call'.ret)
    /\ trace' = Append(trace, Traced("CreateGLTexture", call'.tag, call'.ret,
                                     call'.textureID))
    /\ UNCHANGED <<m_basicMeshes, frames, draws, writer>>

\* the BindGLTextures call that ends LoadSceneTextures
LoadSceneTextures_BindGLTextures ==
    /\ AtCall("BindGLTextures")
    /\ BindGLTextures
    /\ pc' = pc + 1
    /\ trace' = Append(trace, Traced("BindGLTextures", "", TRUE, 0))
    /\ UNCHANGED <<m_basicMeshes, frames, draws, writer>>

PrepareScene_DefineObjectMaterials ==
    /\ AtCall("DefineObjectMaterials")
    /\ DefineObjectMaterials
    /\ pc' = pc + 1
    /\ trace' = Append(trace, Traced("DefineObjectMaterials", "", TRUE, 0))
    /\ UNCHANGED <<m_basicMeshes, frames, draws, writer>>

\* the set...Value calls of SetupSceneLights, as <<name, value>>: vectors in
\* hundredths, the attenuation factors in thousandths
SceneLightWrites ==
    << <<"bUseLighting", TRUE>>,
       <<"ambientLight.color", <<30, 30, 30>>>>,
       <<"directionalLight.direction", <<-20, -100, -30>>>>,
       <<"directionalLight.ambient", <<30, 30, 30>>>>,
       <<"directionalLight.diffuse", <<60, 60, 60>>>>,
       <<"directionalLight.specular", <<50, 50, 50>>>>,
       <<"directionalLight.bActive", TRUE>>,
       <<"pointLights[0].position", <<400, 1265, -200>>>>,
       <<"pointLights[0].ambient", <<20, 20, 20>>>>,
       <<"pointLights[0].diffuse", <<50, 50, 50>>>>,
       <<"pointLights[0].specular", <<80, 80, 80>>>>,
       <<"pointLights[0].constant", 1000>>,
       <<"pointLights[0].linear", 90>>,
       <<"pointLights[0].quadratic", 32>>,
       <<"pointLights[0].bActive", TRUE>>,
       <<"pointLights[1].position", <<50, 100, 0>>>>,
       <<"pointLights[1].ambient", <<10, 10, 10>>>>,
       <<"pointLights[1].diffuse", <<40, 40, 40>>>>,
       <<"pointLights[1].specular", <<50, 50, 50>>>>,
       <<"pointLights[1].constant", 1000>>,
       <<"pointLights[1].linear", 90>>,
       <<"pointLights[1].quadratic", 32>>,
       <<"pointLights[1].bActive", TRUE>> >>

\* SetupSceneLights(): m_pShaderManager is used without a NULL test; it is
\* the application's shader manager in every state of the model
SetupSceneLights ==
    /\ uniforms' = WriteUniforms(uniforms, SceneLightWrites)
    /\ call' = [op |-> "SetupSceneLights", writes |-> SceneLightWrites]
    /\ UNCHANGED <<m_pShaderManager, texVars, m_objectMaterials, glVars>>

PrepareScene_SetupSceneLights ==
    /\ AtCall("SetupSceneLights")
    /\ SetupSceneLights
    /\ writer' = RecordWriters(writer, SceneLightWrites, Writer("SetupSceneLights", 0))
    /\ pc' = pc + 1
    /\ trace' = Append(trace, Traced("SetupSceneLights", "", TRUE, 0))
    /\ UNCHANGED <<m_basicMeshes, frames, draws>>

\* the meshes PrepareScene loads
SceneMeshes ==
    {"SphereMesh", "TaperedCylinderMesh", "CylinderMesh", "PlaneMesh", "BoxMesh",
     "TriangularPrismMesh"}

\* m_basicMeshes->LoadSphereMesh(); ... m_basicMeshes->LoadTriangularPrismMesh();
PrepareScene_LoadMeshes ==
    /\ AtCall("LoadMeshes")
    /\ m_basicMeshes' = m_basicMeshes \cup SceneMeshes
    /\ call' = [op |-> "LoadMeshes"]
    /\ pc' = pc + 1
    /\ trace' = Append(trace, Traced("LoadMeshes", "", TRUE, 0))
    /\ UNCHANGED <<m_pShaderManager, texVars, m_objectMaterials, glVars, uniforms,
                   frames, draws, writer>>

(***************************************************************************)
(* SceneManager::RenderScene and the Render<Object> routines               *)
(*                                                                         *)
(* A routine is the sequence of calls it makes, with their literal         *)
(* arguments: lengths and colour components in hundredths, angles in       *)
(* degrees.  The angles and lengths of the scene are not quarter turns and *)
(* whole numbers, so the matrix SetTransformations composes is kept as the *)
(* arguments it is composed from (SceneModelView): equal arguments give    *)
(* the equal matrix.                                                       *)
(***************************************************************************)
Call(op, args) == [op |-> op, args |-> args]

DrawCalls ==
    {"DrawTaperedCylinderMesh", "DrawPlaneMesh", "DrawBoxMesh",
     "DrawTriangularPrismMesh", "DrawCylinderMesh", "DrawHalfSphereMesh"}

RenderAirFreshner ==
    << Call("SetTransformations", <<<<120, 200, 120>>, 0, 0, 0, <<275, 710, 500>>>>),
       Call("SetShaderMaterial", <<"airFreshener">>),
       Call("SetShaderColor", <<50, 70, 50, 100>>),
       Call("DrawTaperedCylinderMesh", <<>>) >>

RenderBackdrop ==
    << Call("SetTransformations", <<<<5000, 100, 3000>>, 90, 0, 0, <<0, 1000, -1000>>>>),
       Call("SetShaderColor", <<50, 79, 61, 100>>),
       Call("SetShaderTexture", <<"wall">>),
       Call("SetTextureUVScale", <<400, 400>>),
       Call("SetShaderMaterial", <<"wall">>),
       Call("DrawPlaneMesh", <<>>) >>

RenderBook ==
    << Call("SetTransformations", <<<<400, 40, 550>>, 0, -195, 0, <<-150, 720, 400>>>>),
       Call("SetShaderMaterial", <<"bookCover">>),
       Call("DrawBoxMesh", <<>>) >>

RenderFloor ==
    << Call("SetTransformations", <<<<5000, 100, 3000>>, 0, 0, 0, <<0, 0, 0>>>>),
       Call("SetShaderTexture", <<"floor">>),
       Call("SetTextureUVScale", <<100, 100>>),
       Call("SetShaderMaterial", <<"floor">>),
       Call("DrawPlaneMesh", <<>>) >>

RenderGlassesCase ==
    << Call("SetTransformations", <<<<150, 450, 150>>, 90, 60, 180, <<-100, 710, -200>>>>),
       Call("SetShaderMaterial", <<"grayBlackLeather">>),
       Call("SetShaderColor", <<40, 40, 40, 100>>),
       Call("DrawTriangularPrismMesh", <<>>) >>

\* one stone part of the lamp: base, tapered base, neck, neck top, cap, stem
LampPart(scaleXYZ, positionXYZ, draw) ==
    << Call("SetTransformations", <<scaleXYZ, 0, 0, 0, positionXYZ>>),
       Call("SetShaderTexture", <<"stone">>),
       Call("SetShaderMaterial", <<"metal">>),
       Call(draw, <<>>) >>

RenderLamp ==
    LampPart(<<200, 50, 200>>, <<400, 700, -200>>, "DrawCylinderMesh")
    \o LampPart(<<175, 125, 175>>, <<400, 750, -200>>, "DrawTaperedCylinderMesh")
    \o LampPart(<<100, 50, 100>>, <<400, 825, -200>>, "DrawCylinderMesh")
    \o LampPart(<<75, 80, 75>>, <<400, 875, -200>>, "DrawCylinderMesh")
    \o LampPart(<<100, 10, 100>>, <<400, 955, -200>>, "DrawCylinderMesh")
    \o LampPart(<<15, 500, 15>>, <<400, 965, -200>>, "DrawCylinderMesh")
    \o << Call("SetTransformations", <<<<275, 350, 275>>, 0, 0, 0, <<400, 1265, -200>>>>),
          Call("SetShaderTexture", <<"lampshade">>),
          Call("SetShaderMaterial", <<"glass">>),
          Call("DrawHalfSphereMesh", <<>>) >>

\* the table top, or one leg: for (int i = 0; i < 4; ++i) over legPositions
TablePart(scaleXYZ, positionXYZ, materialTag) ==
    << Call("SetTransformations", <<scaleXYZ, 0, 0, 0, positionXYZ>>),
       Call("SetShaderColor", <<15, 15, 15, 100>>),
       Call("SetShaderMaterial", <<materialTag>>),
       Call("DrawCylinderMesh", <<>>) >>

\* mutant: the material tag of the table is misspelt, no material matches
RenderTableMisspelt ==
    TablePart(<<800, 20, 800>>, <<0, 690, 0>>, "tabel")
    \o TablePart(<<10, 690, 10>>, <<500, 0, 500>>, "tabel")
    \o TablePart(<<10, 690, 10>>, <<-500, 0, 500>>, "tabel")
    \o TablePart(<<10, 690, 10>>, <<500, 0, -500>>, "tabel")
    \o TablePart(<<10, 690, 10>>, <<-500, 0, -500>>, "tabel")

RenderTable ==
    TablePart(<<800, 20, 800>>, <<0, 690, 0>>, "table")
    \o TablePart(<<10, 690, 10>>, <<500, 0, 500>>, "table")
    \o TablePart(<<10, 690, 10>>, <<-500, 0, 500>>, "table")
    \o TablePart(<<10, 690, 10>>, <<500, 0, -500>>, "table")
    \o TablePart(<<10, 690, 10>>, <<-500, 0, -500>>, "table")

\* mutant: the materials are defined again at the start of every frame
RenderSceneCallsDefiningMaterials ==
    << "DefineObjectMaterials", "RenderAirFreshner", "RenderBackdrop", "RenderBook",
       "RenderFloor", "RenderGlassesCase", "RenderLamp", "RenderTable" >>

\* the routines RenderScene calls, in order
RenderSceneCalls ==
    << "RenderAirFreshner", "RenderBackdrop", "RenderBook", "RenderFloor",
       "RenderGlassesCase", "RenderLamp", "RenderTable" >>

\* the calls a method of the scene manager makes
CallsOf(routine) ==
    CASE routine = "RenderAirFreshner" -> RenderAirFreshner
      [] routine = "RenderBackdrop" -> RenderBackdrop
      [] routine = "RenderBook" -> RenderBook
      [] routine = "RenderFloor" -> RenderFloor
      [] routine = "RenderGlassesCase" -> RenderGlassesCase
      [] routine = "RenderLamp" -> RenderLamp
      [] routine = "RenderTable" -> RenderTable
      [] routine = "DefineObjectMaterials" -> << Call("DefineObjectMaterials", <<>>) >>

\* the matrix SetTransformations composes, as the arguments that determine it
SceneModelView(scaleXYZ, XrotationDegrees, YrotationDegrees, ZrotationDegrees, positionXYZ) ==
    [scaleXYZ |-> scaleXYZ, XrotationDegrees |-> XrotationDegrees,
     YrotationDegrees |-> YrotationDegrees, ZrotationDegrees |-> ZrotationDegrees,
     positionXYZ |-> positionXYZ]

\* the set...Value calls a call of a Render<Object> routine makes in the
\* state `st` of the scene manager; `local` is the uninitialised local of
\* SetShaderMaterial
WritesOf(st, c, local) ==
    CASE c.op = "SetTransformations" ->
             IF NULL # st.pShaderManager
             THEN << <<"model", SceneModelView(c.args[1], c.args[2], c.args[3],
                                               c.args[4], c.args[5])>> >>
             ELSE <<>>
      [] c.op = "SetShaderColor" ->
             IF NULL # st.pShaderManager
             THEN ShaderColorWrites(c.args[1], c.args[2], c.args[3], c.args[4])
             ELSE <<>>
      [] c.op = "SetShaderTexture" ->
             IF NULL # st.pShaderManager
             THEN ShaderTextureWrites(
                      FindTextureSlotLoop(st.textureIDs, st.loadedTextures,
                                          c.args[1], 0, {}).ret)
             ELSE <<>>
      [] c.op = "SetTextureUVScale" ->
             IF NULL # st.pShaderManager
             THEN UVScaleWrites(c.args[1], c.args[2])
             ELSE <<>>
      [] c.op = "SetShaderMaterial" ->
             ShaderMaterialWrites(st.objectMaterials, c.args[1], local)

\* the state `st` (the fields of the scene manager, the uniforms and their
\* writers, the draws of the frame) after `who` made the call c
ExecuteCall(st, who, c, local) ==
    IF c.op \in DrawCalls
    THEN [st EXCEPT !.draws = Append(@, [routine |-> who.routine, frame |-> who.frame,
                                         mesh |-> c.op, uniforms |-> st.uniforms,
                                         writer |-> st.writer])]
    ELSE IF c.op = "DefineObjectMaterials"
    THEN [st EXCEPT !.objectMaterials = @ \o SceneMaterials]
    ELSE LET writes == WritesOf(st, c, local)
         IN  [st EXCEPT !.uniforms = WriteUniforms(@, writes),
                        !.writer = RecordWriters(@, writes, who)]

RECURSIVE ExecuteCalls(_, _, _, _)
\* the calls of `calls` made in order, each on the state the call before it
\* left (s: that state, evaluated once)
ExecuteCalls(st, who, calls, local) ==
    IF calls = <<>> THEN st
    ELSE CHOOSE after \in {ExecuteCalls(s, who, Tail(calls), local) :
                               s \in {ExecuteCall(st, who, Head(calls), local)}} : TRUE

RECURSIVE ExecuteRoutines(_, _, _, _)
\* the routines of `routines` run in order during RenderScene call `frame`
ExecuteRoutines(st, routines, frame, local) ==
    IF routines = <<>> THEN st
    ELSE CHOOSE after \in {ExecuteRoutines(s, Tail(routines), frame, local) :
                               s \in {ExecuteCalls(st, Writer(Head(routines), frame),
                                                    CallsOf(Head(routines)), local)}} : TRUE

\* RenderScene(), called once PrepareScene has returned; `local` is what the
\* uninitialised local of SetShaderMaterial holds during this frame
RenderScene(local) ==
    LET st == ExecuteRoutines([pShaderManager |-> m_pShaderManager,
                               textureIDs |-> m_textureIDs,
                               loadedTextures |-> m_loadedTextures,
                               objectMaterials |-> m_objectMaterials,
                               uniforms |-> uniforms, writer |-> writer,
                               draws |-> <<>>],
                              RenderSceneCalls, frames + 1, local)
    IN  /\ Prepared
        /\ m_pShaderManager' = st.pShaderManager
        /\ m_textureIDs' = st.textureIDs
        /\ m_loadedTextures' = st.loadedTextures
        /\ m_objectMaterials' = st.objectMaterials
        /\ uniforms' = st.uniforms
        /\ writer' = st.writer
        /\ draws' = st.draws
        /\ frames' = frames + 1
        /\ call' = [op |-> "RenderScene"]
        /\ UNCHANGED <<glVars, m_basicMeshes, pc, trace>>

\* the application: PrepareScene once, then RenderScene frame after frame
NextScene ==
    \/ LoadSceneTextures_CreateGLTexture
    \/ LoadSceneTextures_BindGLTextures
    \/ PrepareScene_DefineObjectMaterials
    \/ PrepareScene_SetupSceneLights
    \/ PrepareScene_LoadMeshes
    \/ \E local \in CallerMaterials : frames < MaxFrames /\ RenderScene(local)

SpecScene == Init /\ [][NextScene]_vars

(***************************************************************************)
(* Properties of scene setup and of the frames (checked under SpecScene).  *)
(***************************************************************************)
\* the calls made so far, as <<method, tag>>
TraceCalls == [i \in 1..Len(trace) |-> <<trace[i].op, trace[i].tag>>]

\* C13: an image-load failure never aborts scene setup: whatever loads
\* succeed or fail, the calls PrepareScene has made are always an initial
\* part of: CreateGLTexture for wall, lampshade, stone, floor in that order,
\* BindGLTextures, DefineObjectMaterials, SetupSceneLights, the mesh loads;
\* when PrepareScene has returned all of them were made, the materials are
\* defined, the lights are set and the meshes are loaded; and a tag has a
\* registry entry exactly when its load succeeded.
C13_LoadFailureDoesNotAbortSetup ==
    LET all == << <<"CreateGLTexture", "wall">>, <<"CreateGLTexture", "lampshade">>,
                  <<"CreateGLTexture", "stone">>, <<"CreateGLTexture", "floor">>,
                  <<"BindGLTextures", "">>, <<"DefineObjectMaterials", "">>,
                  <<"SetupSceneLights", "">>, <<"LoadMeshes", "">> >>
    IN  /\ Len(trace) <= Len(all)
        /\ TraceCalls = SubSeq(all, 1, Len(trace))
        /\ \A i \in 1..Len(trace) :
               trace[i].op = "CreateGLTexture"
                   => (trace[i].ret <=> SlotsOf(trace[i].tag) # {})
        /\ Prepared =>
               /\ Len(trace) = Len(all)
               /\ call.op \in {"LoadMeshes", "RenderScene"}
               /\ Len(m_objectMaterials) = Len(SceneMaterials)
               /\ "bUseLighting" \in DOMAIN uniforms /\ uniforms["bUseLighting"] = TRUE
               /\ m_basicMeshes = SceneMeshes

\* PrepareScene has returned after the wall image could not be decoded, the
\* stone image had 2 channels, and the other two loads succeeded
C13_Witness ==
    /\ Prepared
    /\ frames = 0
    /\ trace[1].ret = FALSE /\ trace[1].textureID = 0
    /\ trace[2].ret = TRUE
    /\ trace[3].ret = FALSE /\ trace[3].textureID # 0
    /\ trace[4].ret = TRUE
    /\ m_loadedTextures = 2
    /\ SlotsOf("wall") = {} /\ SlotsOf("stone") = {}
    /\ m_basicMeshes = SceneMeshes

\* C14: the registries are read-only after setup: once PrepareScene has
\* returned, every step (each one a RenderScene call, with all the
\* SetShaderTexture, SetShaderMaterial, FindTextureSlot and FindMaterial
\* calls it makes) leaves m_loadedTextures, every entry of m_textureIDs and
\* every entry of m_objectMaterials unchanged.
C14_RegistriesReadOnlyAfterSetup ==
    [][Prepared => UNCHANGED <<m_loadedTextures, m_textureIDs, m_objectMaterials>>]_vars

\* two frames have been rendered over registries holding the eight
\* materials and the textures whose loads succeeded
C14_Witness ==
    /\ Prepared
    /\ frames = 2
    /\ call.op = "RenderScene"
    /\ Len(draws) = 17
    /\ m_loadedTextures = 3
    /\ m_objectMaterials = SceneMaterials

\* the trace entry of the CreateGLTexture call for `tag`
LoadOf(tag) == trace[CHOOSE i \in 1..Len(trace) : trace[i].tag = tag]

\* the tags whose CreateGLTexture call in LoadSceneTextures returned true
LoadedTags ==
    {trace[i].tag : i \in {j \in 1..Len(trace) :
                             trace[j].op = "CreateGLTexture" /\ trace[j].ret}}

\* the sampler index SetShaderTexture(tag) sends to the shader
SamplerSent(tag) == ShaderTextureWrites(FoundTextureSlot(tag))[2][2]

\* C16: slot/unit consistency under partial load failure: whatever loads of
\* LoadSceneTextures succeed or fail, once it has returned, for each tag T
\* that was loaded FindTextureSlot(T) is a slot i whose texture unit i
\* BindGLTextures bound to the name generated for T, so the sampler index
\* SetShaderTexture(T) sends names the unit that holds T's own texture and
\* no other tag's.
C16_SamplerNamesOwnTextureUnit ==
    AtCall("DefineObjectMaterials") \/ AtCall("SetupSceneLights")
        \/ AtCall("LoadMeshes") \/ Prepared
    => \A T \in LoadedTags :
           /\ FoundTextureSlot(T) \in 0..(m_loadedTextures - 1)
           /\ SamplerSent(T) = FoundTextureSlot(T)
           /\ glUnits[SamplerSent(T)] = LoadOf(T).textureID
           /\ glTextures[glUnits[SamplerSent(T)]] \in {"GL_RGB8", "GL_RGBA8"}
           /\ \A U \in LoadedTags \ {T} :
                  glUnits[SamplerSent(T)] # LoadOf(U).textureID

\* LoadSceneTextures has returned; the wall image had 1 channel, the other
\* three loads succeeded, and "floor" is sampled from unit 2
C16_Witness ==
    /\ AtCall("DefineObjectMaterials")
    /\ LoadedTags = {"lampshade", "stone", "floor"}
    /\ LoadOf("wall").textureID # 0
    /\ SamplerSent("floor") = 2
    /\ glUnits[2] = LoadOf("floor").textureID

\* C18: no draw uses stale colour/texture selection: at every mesh draw call
\* of RenderScene, bUseTexture - and, when it is true, the objectTexture
\* sampler - was last written by the Render<Object> routine that issues the
\* draw, during the same RenderScene call.
C18_NoDrawUsesStaleSelection ==
    \A i \in 1..Len(draws) :
        LET d == draws[i]
            own == Writer(d.routine, d.frame)
        IN  /\ "bUseTexture" \in DOMAIN d.writer
            /\ d.writer["bUseTexture"] = own
            /\ d.uniforms["bUseTexture"] = TRUE
                   => /\ "objectTexture" \in DOMAIN d.writer
                      /\ d.writer["objectTexture"] = own

\* the uniform values each draw of the last RenderScene call was issued with
DrawUniforms == [i \in 1..Len(draws) |-> <<draws[i].mesh, draws[i].uniforms>>]

\* the uniforms RenderScene writes
FrameUniforms ==
    {"model", "bUseTexture", "objectColor", "objectTexture", "UVscale",
     "material.diffuseColor", "material.specularColor", "material.shininess"}

\* C19: RenderScene is idempotent on shader state: after PrepareScene, a
\* RenderScene call leaves every uniform it writes with a value that does
\* not depend on the value before the call: the first call (from unset
\* uniforms) leaves all of them set, each later call leaves the shader state
\* as the call before it did, and from the second frame onward every draw is
\* issued with the uniform values it had in the frame before.
C19_RenderSceneIdempotent ==
    [][call'.op = "RenderScene" /\ frames' = frames + 1
         => /\ FrameUniforms \subseteq DOMAIN uniforms'
            /\ frames >= 1 => uniforms' = uniforms
            /\ frames >= 2 => DrawUniforms' = DrawUniforms]_vars

\* the third frame has been rendered, with textures missing and present
C19_Witness ==
    /\ call.op = "RenderScene"
    /\ frames = 3
    /\ Len(draws) = 17
    /\ uniforms["bUseTexture"] = FALSE
    /\ uniforms["objectTexture"] = -1
    /\ uniforms["UVscale"] = <<100, 100>>
    /\ SlotsOf("lampshade") = {} /\ SlotsOf("floor") # {}

=============================================================================
